---- MODULE Spec2Model ----
(***************************************************************************)
(* Model of the New Relic fairing of src/src/lib.rs: the request-local     *)
(* Transaction cell (Traced / NotTraced / None), the two fairing callbacks *)
(* on_request and on_response, and the request guard from_request.         *)
(*                                                                         *)
(* The host (Rocket) drives each request through                           *)
(*   arrived --on_request--> handling --from_request*--> handling          *)
(*           --handler returns--> ready --on_response--> responded         *)
(* and interleaves the steps of different requests freely.  The tracing    *)
(* backend (the newrelic crate) is an external collaborator: every call    *)
(* made to it is appended to the calling request's log, and the result of  *)
(* the call (Ok / Err) is a nondeterministic input.                        *)
(*                                                                         *)
(* Two statements of lib.rs depend on the signatures they are compiled     *)
(* against: the write of from_request (line 108) and the end call of       *)
(* on_response (line 47).  The comments next to them say that the compiler *)
(* rejects both ("This doesn't work") with a request-local cache that      *)
(* hands out shared references and a Transaction::end that takes &mut      *)
(* self.  The model carries both outcomes of the build: under signatures   *)
(* that reject the two lines a call that reaches one of them cannot be     *)
(* made; under signatures that accept them the call does what the          *)
(* statements say.                                                         *)
(*                                                                         *)
(* What the newrelic crate does when a Transaction is dropped with its     *)
(* request (lib.rs:42-44 mentions it) is code outside src/ and is not part *)
(* of this model: the logs hold the calls that lib.rs itself makes.        *)
(***************************************************************************)
EXTENDS Integers, Sequences, FiniteSets, TLC

(* ------------------------------ bounds --------------------------------- *)

\* number of requests in flight at the same time
NReq == 2

\* largest number of from_request calls the host makes for one request
MaxExpose == 2

Req == 1 .. NReq

(* ------------------------------ the build ------------------------------ *)

\* the signatures lib.rs is compiled against: "shared", where local_cache
\* hands out &Transaction and end takes &mut self, so that lines 47 and 108
\* are rejected, and "mutable", where both lines are accepted
Builds == {"shared", "mutable"}

(* ---------------------------- input values ----------------------------- *)

\* request.route(): None, or a route with a base URI and an optional name
NoRoute == [matched |-> FALSE, base |-> <<>>, hasName |-> FALSE, name |-> <<>>]

Routes ==
  { NoRoute,
    [matched |-> TRUE, base |-> <<"/", "u", "s", "e", "r", "s">>,
     hasName |-> TRUE, name |-> <<"l", "i", "s", "t">>] }

\* response.status(): a code and a reason phrase
NoResponse == [code |-> 0, reason |-> ""]

Statuses ==
  { [code |-> 200, reason |-> "OK"],
    [code |-> 404, reason |-> "Not Found"] }

(* ------------------------ the Transaction enum ------------------------- *)

\* the absence of a newrelic::Transaction
NoHandle == <<0, 0>>

\* the request-local cache before anything was stored in it
EmptyCell == [tag |-> "Empty", h |-> NoHandle]

\* Transaction::None
NoneCell == [tag |-> "None", h |-> NoHandle]

\* Transaction::NotTraced(t)
NotTraced(t) == [tag |-> "NotTraced", h |-> t]

\* Transaction::Traced(t)
Traced(t) == [tag |-> "Traced", h |-> t]

(* --------------------------- pure functions ---------------------------- *)

\* str::trim_start_matches(ch): drop every leading occurrence of ch
RECURSIVE TrimStartMatches(_, _)
TrimStartMatches(s, ch) ==
  IF s # <<>> /\ Head(s) = ch THEN TrimStartMatches(Tail(s), ch) ELSE s

\* the literal "unknown_handler"
UnknownHandler ==
  <<"u", "n", "k", "n", "o", "w", "n", "_", "h", "a", "n", "d", "l", "e", "r">>

TransactionNameUntrimmed(rt) ==
  IF rt.matched
    THEN rt.base \o <<"/">> \o (IF rt.hasName THEN rt.name ELSE UnknownHandler)
    ELSE UnknownHandler

\* the transaction name computed by Transaction::new
TransactionName(rt) ==
  IF rt.matched
    THEN TrimStartMatches(rt.base, "/") \o <<"/">>
           \o (IF rt.hasName THEN rt.name ELSE UnknownHandler)
    ELSE UnknownHandler

TransactionNewTraced(ok, t) == IF ok THEN Traced(t) ELSE NoneCell

\* web_transaction(..).map(NotTraced).unwrap_or(None)
TransactionNew(ok, t) == IF ok THEN NotTraced(t) ELSE NoneCell

IsSuccessBelow400(st) == st.code >= 200 /\ st.code < 400

\* Status::class().is_success(): the codes 200 .. 299
IsSuccess(st) == st.code >= 200 /\ st.code < 300

\* Status::to_string(): "<code> <reason>"
StatusToString(st) == ToString(st.code) \o " " \o st.reason

\* the error priority passed to notice_error
ErrorCode == 100

CacheMissOrNone(c) == c.tag \in {"Empty", "None"}

\* request.local_cache runs its closure only when nothing is stored yet
CacheMiss(c) == c.tag = "Empty"

LocalCacheOverwrite(c, v) == v

\* request.local_cache(|| v): the stored value, v being stored on a miss
LocalCache(c, v) == IF CacheMiss(c) THEN v ELSE c

CacheSlotShared(r) == CHOOSE q \in Req : \A p \in Req : q <= p

\* the cache consulted for request r is the one owned by request r
CacheSlot(r) == r

PromoteNever(c) == c

PromoteAnything(c) == IF c.tag = "Traced" THEN c ELSE Traced(c.h)

PromoteDemote(c) ==
  IF c.tag = "NotTraced" THEN Traced(c.h)
  ELSE IF c.tag = "Traced" THEN NotTraced(c.h) ELSE c

\* from_request: a NotTraced cell becomes Traced with the same transaction
Promote(c) == IF c.tag = "NotTraced" THEN Traced(c.h) ELSE c

(* ---------------------------- backend calls ---------------------------- *)

Call(op, t, ok, code, msg, name) ==
  [op |-> op, h |-> t, ok |-> ok, code |-> code, msg |-> msg, name |-> name]

\* app.web_transaction(&transaction_name)
WebTransactionCall(name, t, ok) ==
  Call("web_transaction", IF ok THEN t ELSE NoHandle, ok, 0, "", name)

\* transaction.notice_error(100, &status.to_string(), "")
NoticeErrorCall(t, st, ok) ==
  Call("notice_error", t, ok, ErrorCode, StatusToString(st), <<>>)

\* transaction.end()
EndCall(t, ok) == Call("end", t, ok, 0, "", <<>>)

\* transaction.ignore()
IgnoreCall(t, ok) == Call("ignore", t, ok, 0, "", <<>>)

ResponseCallsEndUntraced(c, st, okErr, okEnd, okIgn) ==
  IF c.tag = "Traced"
    THEN (IF ~IsSuccess(st) THEN <<NoticeErrorCall(c.h, st, okErr)>> ELSE <<>>)
           \o <<EndCall(c.h, okEnd)>>
  ELSE IF c.tag = "NotTraced" THEN <<EndCall(c.h, okEnd)>>
  ELSE <<>>

ResponseCallsErrorLast(c, st, okErr, okEnd, okIgn) ==
  IF c.tag = "Traced"
    THEN <<EndCall(c.h, okEnd)>>
           \o (IF ~IsSuccess(st) THEN <<NoticeErrorCall(c.h, st, okErr)>> ELSE <<>>)
  ELSE IF c.tag = "NotTraced" THEN <<IgnoreCall(c.h, okIgn)>>
  ELSE <<>>

ResponseCallsIgnoreThenEnd(c, st, okErr, okEnd, okIgn) ==
  IF c.tag = "Traced"
    THEN (IF ~IsSuccess(st) THEN <<NoticeErrorCall(c.h, st, okErr)>> ELSE <<>>)
           \o <<EndCall(c.h, okEnd)>>
  ELSE IF c.tag = "NotTraced" THEN <<IgnoreCall(c.h, okIgn), EndCall(c.h, okEnd)>>
  ELSE <<>>

ResponseCallsForgetUntraced(c, st, okErr, okEnd, okIgn) ==
  IF c.tag = "Traced"
    THEN (IF ~IsSuccess(st) THEN <<NoticeErrorCall(c.h, st, okErr)>> ELSE <<>>)
           \o <<EndCall(c.h, okEnd)>>
  ELSE <<>>

ResponseCallsIgnoreNone(c, st, okErr, okEnd, okIgn) ==
  IF c.tag = "Traced"
    THEN (IF ~IsSuccess(st) THEN <<NoticeErrorCall(c.h, st, okErr)>> ELSE <<>>)
           \o <<EndCall(c.h, okEnd)>>
  ELSE <<IgnoreCall(c.h, okIgn)>>

ResponseCallsPropagate(c, st, okErr, okEnd, okIgn) ==
  IF c.tag = "Traced"
    THEN IF ~IsSuccess(st)
           THEN <<NoticeErrorCall(c.h, st, okErr)>>
                  \o (IF okErr THEN <<EndCall(c.h, okEnd)>> ELSE <<>>)
           ELSE <<EndCall(c.h, okEnd)>>
  ELSE IF c.tag = "NotTraced" THEN <<IgnoreCall(c.h, okIgn)>>
  ELSE <<>>

\* the backend calls of on_response, in order, for the cell it finds
ResponseCalls(c, st, okErr, okEnd, okIgn) ==
  IF c.tag = "Traced"
    THEN (IF ~IsSuccess(st) THEN <<NoticeErrorCall(c.h, st, okErr)>> ELSE <<>>)
           \o <<EndCall(c.h, okEnd)>>
  ELSE IF c.tag = "NotTraced" THEN <<IgnoreCall(c.h, okIgn)>>
  ELSE <<>>

(* -------------------------------- state -------------------------------- *)

VARIABLES
  phase,    \* phase[r]: where the host is in its handling of request r
  cell,     \* cell[r]: the Transaction in the request-local cache of r
  log,      \* log[r]: the backend calls made while handling r, in order
  exposed,  \* exposed[r]: what each from_request call of r returned
  resp,     \* resp[r]: the response of r, once the handler has produced it
  route,    \* route[r]: request.route() as on_request found it
  hooked,   \* hooked[r]: on_request has run for r
  build     \* the signatures this run of the program was compiled against

vars == <<phase, cell, log, exposed, resp, route, hooked, build>>

\* lines 47 and 108 are accepted by the compiler in this build
Accepted == build = "mutable"

\* from_request can be called on a cache that holds c: for a NotTraced cell
\* the body reaches line 108, which has to be accepted
CanExpose(c) == c.tag = "NotTraced" => Accepted

\* on_response can be called on a cache that holds c: for a Traced cell
\* the body reaches line 47, which has to be accepted
CanRespond(c) == c.tag = "Traced" => Accepted

\* number of entries of sequence s that satisfy Test
Count(s, Test(_)) == Cardinality({i \in 1 .. Len(s) : Test(s[i])})

\* the handle the backend returns for the next web_transaction call of r
FreshHandle(r) ==
  <<r, 1 + Cardinality({i \in 1 .. Len(log[r]) : log[r][i].op = "web_transaction"})>>

Init ==
  /\ phase = [r \in Req |-> "arrived"]
  /\ cell = [r \in Req |-> EmptyCell]
  /\ log = [r \in Req |-> <<>>]
  /\ exposed = [r \in Req |-> <<>>]
  /\ resp = [r \in Req |-> NoResponse]
  /\ route = [r \in Req |-> NoRoute]
  /\ hooked = [r \in Req |-> FALSE]
  /\ build \in Builds

\* Fairing::on_request, for a request whose route() is one of rts
OnRequestFrom(r, rts) ==
  /\ phase[r] = "arrived"
  /\ \E rt \in rts, ok \in BOOLEAN :
       LET slot == CacheSlot(r)
           t == FreshHandle(r)
       IN /\ cell' = [cell EXCEPT ![slot] = LocalCache(@, TransactionNew(ok, t))]
          /\ log' = IF CacheMiss(cell[slot])
                      THEN [log EXCEPT ![r] =
                              Append(@, WebTransactionCall(TransactionName(rt), t, ok))]
                      ELSE log
          /\ route' = [route EXCEPT ![r] = rt]
  /\ phase' = [phase EXCEPT ![r] = "handling"]
  /\ hooked' = [hooked EXCEPT ![r] = TRUE]
  /\ UNCHANGED <<exposed, resp, build>>

\* Fairing::on_request
OnRequest(r) == OnRequestFrom(r, Routes)

\* FromRequest::from_request for &Transaction
FromRequest(r) ==
  /\ phase[r] = "handling"
  /\ Len(exposed[r]) < MaxExpose
  /\ CanExpose(LocalCache(cell[CacheSlot(r)], NoneCell))
  /\ LET slot == CacheSlot(r)
         c == Promote(LocalCache(cell[slot], NoneCell))
     IN /\ cell' = [cell EXCEPT ![slot] = c]
        /\ exposed' = [exposed EXCEPT ![r] =
                         Append(@, [outcome |-> "Success", tag |-> c.tag, h |-> c.h])]
  /\ UNCHANGED <<phase, log, resp, route, hooked, build>>

\* the route handler (or the host's error catcher) produces the response
HandlerReturns(r) ==
  /\ phase[r] = "handling"
  /\ \E st \in Statuses : resp' = [resp EXCEPT ![r] = st]
  /\ phase' = [phase EXCEPT ![r] = "ready"]
  /\ UNCHANGED <<cell, log, exposed, route, hooked, build>>

\* the results the backend can give to the op calls of on_response for r
\* and status st: Ok or Err for a call that is made, nothing to choose for
\* a call that is not made
Answers(r, st, op) ==
  LET made == ResponseCalls(LocalCache(cell[CacheSlot(r)], NoneCell), st, TRUE, TRUE, TRUE)
  IN IF \E i \in 1 .. Len(made) : made[i].op = op THEN BOOLEAN ELSE {TRUE}

OnResponseFailsResponse(r) ==
  /\ phase[r] = "ready"
  /\ CanRespond(LocalCache(cell[CacheSlot(r)], NoneCell))
  /\ \E okErr \in Answers(r, resp[r], "notice_error"),
        okEnd \in Answers(r, resp[r], "end"),
        okIgn \in Answers(r, resp[r], "ignore") :
       LET slot == CacheSlot(r)
           c == LocalCache(cell[slot], NoneCell)
           calls == ResponseCalls(c, resp[r], okErr, okEnd, okIgn)
       IN /\ cell' = [cell EXCEPT ![slot] = c]
          /\ log' = [log EXCEPT ![r] = @ \o calls]
          /\ resp' = IF \E i \in 1 .. Len(calls) : ~calls[i].ok
                       THEN [resp EXCEPT ![r] =
                               [code |-> 500, reason |-> "Internal Server Error"]]
                       ELSE resp
  /\ phase' = [phase EXCEPT ![r] = "responded"]
  /\ UNCHANGED <<exposed, route, hooked, build>>

\* Fairing::on_response
OnResponse(r) ==
  /\ phase[r] = "ready"
  /\ CanRespond(LocalCache(cell[CacheSlot(r)], NoneCell))
  /\ \E okErr \in Answers(r, resp[r], "notice_error"),
        okEnd \in Answers(r, resp[r], "end"),
        okIgn \in Answers(r, resp[r], "ignore") :
       LET slot == CacheSlot(r)
           c == LocalCache(cell[slot], NoneCell)
       IN /\ cell' = [cell EXCEPT ![slot] = c]
          /\ log' = [log EXCEPT ![r] = @ \o ResponseCalls(c, resp[r], okErr, okEnd, okIgn)]
  /\ phase' = [phase EXCEPT ![r] = "responded"]
  /\ UNCHANGED <<exposed, resp, route, hooked, build>>

Next ==
  \E r \in Req :
    \/ OnRequest(r)
    \/ FromRequest(r)
    \/ HandlerReturns(r)
    \/ OnResponse(r)

Spec == Init /\ [][Next]_vars

(* ------------------ callbacks out of their usual order ----------------- *)

\* the host does not run on_request for r (the fairing is not attached)
SkipOnRequest(r) ==
  /\ phase[r] = "arrived"
  /\ ~hooked[r]
  /\ phase' = [phase EXCEPT ![r] = "handling"]
  /\ UNCHANGED <<cell, log, exposed, resp, route, hooked, build>>

\* from_request called before on_request (by a fairing attached earlier)
EarlyFromRequest(r) ==
  /\ phase[r] = "arrived"
  /\ Len(exposed[r]) < MaxExpose
  /\ CanExpose(LocalCache(cell[CacheSlot(r)], NoneCell))
  /\ LET slot == CacheSlot(r)
         c == Promote(LocalCache(cell[slot], NoneCell))
     IN /\ cell' = [cell EXCEPT ![slot] = c]
        /\ exposed' = [exposed EXCEPT ![r] =
                         Append(@, [outcome |-> "Success", tag |-> c.tag, h |-> c.h])]
  /\ UNCHANGED <<phase, log, resp, route, hooked, build>>

\* on_response called before on_request, on a cache nothing was stored in
EarlyOnResponse(r) ==
  /\ phase[r] = "arrived"
  /\ CacheMiss(cell[CacheSlot(r)])
  /\ \E st \in Statuses :
     \E okErr \in Answers(r, st, "notice_error"),
        okEnd \in Answers(r, st, "end"),
        okIgn \in Answers(r, st, "ignore") :
       LET slot == CacheSlot(r)
           c == LocalCache(cell[slot], NoneCell)
       IN /\ cell' = [cell EXCEPT ![slot] = c]
          /\ log' = [log EXCEPT ![r] = @ \o ResponseCalls(c, st, okErr, okEnd, okIgn)]
  /\ UNCHANGED <<phase, exposed, resp, route, hooked, build>>

\* Fairing::on_request as Rocket runs it: before routing, route() is None
UnroutedOnRequest(r) == OnRequestFrom(r, {NoRoute})

NextPipeline ==
  \E r \in Req :
    \/ UnroutedOnRequest(r)
    \/ FromRequest(r)
    \/ HandlerReturns(r)
    \/ OnResponse(r)

\* the pipeline as Rocket runs it, with a host that completes every request
\* it has started handling: the handler returns and on_response is invoked
FairSpec ==
  /\ Init /\ [][NextPipeline]_vars
  /\ \A r \in Req : WF_vars(HandlerReturns(r)) /\ WF_vars(OnResponse(r))

NextMisuse ==
  \E r \in Req :
    \/ UnroutedOnRequest(r)
    \/ SkipOnRequest(r)
    \/ EarlyFromRequest(r)
    \/ EarlyOnResponse(r)
    \/ FromRequest(r)
    \/ HandlerReturns(r)
    \/ OnResponse(r)

\* every order of the callbacks: on_request late or never
SpecMisuse == Init /\ [][NextMisuse]_vars

(* ------------------------- naming of transactions ---------------------- *)

\* routes as Rocket mounts them: a normalized base ("/", "/users",
\* "/api/v1"), with or without a handler name
MountedRoutes ==
  {[matched |-> TRUE, base |-> b, hasName |-> n # <<>>, name |-> n] :
     b \in {<<"/">>, <<"/", "u", "s", "e", "r", "s">>,
            <<"/", "a", "p", "i", "/", "v", "1">>},
     n \in {<<>>, <<"l", "i", "s", "t">>}}

\* Fairing::on_request for a request that carries any of these routes
NamingOnRequest(r) == OnRequestFrom(r, MountedRoutes \cup {NoRoute})

NextNaming == \E r \in Req : NamingOnRequest(r)

\* Transaction::new applied to every kind of route
SpecNaming == Init /\ [][NextNaming]_vars

(* -------------------------- classes of statuses ------------------------ *)

\* one status of each class of Status::class(): informational, success,
\* redirection, client error, server error, and a code outside 100 .. 599
ClassStatuses ==
  { [code |-> 100, reason |-> "Continue"],
    [code |-> 200, reason |-> "OK"],
    [code |-> 204, reason |-> "No Content"],
    [code |-> 303, reason |-> "See Other"],
    [code |-> 404, reason |-> "Not Found"],
    [code |-> 500, reason |-> "Internal Server Error"],
    [code |-> 600, reason |-> "Custom"] }

\* the cell of r when its response is ready: what on_request and the
\* from_request calls of the pipeline leave behind
ReadyCell(r, tag) ==
  IF tag = "None" THEN NoneCell
  ELSE IF tag = "NotTraced" THEN NotTraced(<<r, 1>>) ELSE Traced(<<r, 1>>)

\* every request has been handled and its response, of any class, is ready
InitReady ==
  \E tags \in [Req -> {"None", "NotTraced", "Traced"}], sts \in [Req -> ClassStatuses] :
    /\ phase = [r \in Req |-> "ready"]
    /\ cell = [r \in Req |-> ReadyCell(r, tags[r])]
    /\ log = [r \in Req |->
                <<WebTransactionCall(TransactionName(NoRoute), <<r, 1>>, tags[r] # "None")>>]
    /\ exposed = [r \in Req |->
                    IF tags[r] = "Traced"
                      THEN <<[outcome |-> "Success", tag |-> "Traced", h |-> <<r, 1>>]>>
                      ELSE <<>>]
    /\ resp = sts
    /\ route = [r \in Req |-> NoRoute]
    /\ hooked = [r \in Req |-> TRUE]
    /\ build = "mutable"

NextResponse == \E r \in Req : OnResponse(r)

\* on_response applied to every cell variant and every class of status
SpecClasses == InitReady /\ [][NextResponse]_vars

(* ------------------------- derived observations ------------------------ *)

\* number of calls of operation op made while handling r
OpCount(r, op) == Count(log[r], LAMBDA e : e.op = op)

\* the handles web_transaction returned while handling r
Opened(r) ==
  {log[r][i].h : i \in {j \in 1 .. Len(log[r]) :
                          log[r][j].op = "web_transaction" /\ log[r][j].ok}}

\* on_request of r opened a transaction / was refused one by the backend
OpenedOk(r) == \E i \in 1 .. Len(log[r]) : log[r][i].op = "web_transaction" /\ log[r][i].ok
OpenFailed(r) == \E i \in 1 .. Len(log[r]) : log[r][i].op = "web_transaction" /\ ~log[r][i].ok

\* the calls on transactions (everything but web_transaction), as <<r, i>>
HandleCalls ==
  {ri \in UNION {{<<r, i>> : i \in 1 .. Len(log[r])} : r \in Req} :
     log[ri[1]][ri[2]].op # "web_transaction"}

Terminal(e) == e.op \in {"end", "ignore"}

(* -------------------------------- claims ------------------------------- *)

\* C1: at most one web_transaction call is made per request, and once
\* on_request has run the cell keeps the transaction that call returned:
\* later accesses of the request-local cache find that same cell.
C1_AtMostOneOpen ==
  \A r \in Req :
    /\ OpCount(r, "web_transaction") <= 1
    /\ phase[r] # "arrived" => cell[r].tag # "Empty"
    /\ \A i \in 1 .. Len(log[r]) :
         log[r][i].op = "web_transaction" => cell[r].h = log[r][i].h

C1_Witness ==
  \E r \in Req :
    /\ phase[r] = "responded" /\ Len(exposed[r]) >= 2
    /\ OpenedOk(r) /\ OpCount(r, "web_transaction") = 1

\* C2: a request whose transaction was opened and never exposed gets, from
\* on_response, exactly one ignore call on its own handle and neither an end
\* nor a notice_error call, whatever the response status.
C2_UnclaimedDiscarded ==
  \A r \in Req :
    phase[r] = "responded" /\ OpenedOk(r) /\ Len(exposed[r]) = 0 =>
      /\ Count(log[r], LAMBDA e : e.op = "ignore" /\ e.h \in Opened(r)) = 1
      /\ OpCount(r, "ignore") = 1
      /\ OpCount(r, "end") = 0
      /\ OpCount(r, "notice_error") = 0

C2_Witness ==
  \E r \in Req :
    /\ phase[r] = "responded" /\ OpenedOk(r) /\ Len(exposed[r]) = 0
    /\ ~IsSuccess(resp[r]) /\ OpCount(r, "ignore") = 1

\* C3: a request whose transaction was opened and exposed at least once
\* gets, from on_response, exactly one end call on its own handle and no
\* ignore call.
C3_ClaimedEnded ==
  \A r \in Req :
    phase[r] = "responded" /\ OpenedOk(r) /\ Len(exposed[r]) >= 1 =>
      /\ Count(log[r], LAMBDA e : e.op = "end" /\ e.h \in Opened(r)) = 1
      /\ OpCount(r, "end") = 1
      /\ OpCount(r, "ignore") = 0

C3_Witness ==
  \E r \in Req :
    /\ phase[r] = "responded" /\ OpenedOk(r) /\ Len(exposed[r]) >= 1
    /\ OpCount(r, "end") = 1

\* exactly one notice_error call was made for r, before the end call on the
\* same handle, carrying the text of the response status
ErrorNoticedBeforeEnd(r) ==
  /\ OpCount(r, "notice_error") = 1
  /\ \E i \in 1 .. Len(log[r]) :
       /\ log[r][i].op = "notice_error"
       /\ log[r][i].msg = StatusToString(resp[r])
       /\ resp[r].code = 404 => log[r][i].msg = "404 Not Found"
       /\ \E j \in (i + 1) .. Len(log[r]) :
            log[r][j].op = "end" /\ log[r][j].h = log[r][i].h
       /\ \A j \in 1 .. (i - 1) : log[r][j].h # log[r][i].h \/ ~Terminal(log[r][j])

\* C4 as stated: every request exposed at least once whose response is not
\* a success gets exactly one notice_error call before its end call.
C4_Original ==
  \A r \in Req :
    phase[r] = "responded" /\ Len(exposed[r]) >= 1 /\ ~IsSuccess(resp[r]) =>
      ErrorNoticedBeforeEnd(r)

\* C4 (amended): every request whose transaction was opened successfully,
\* that was exposed at least once and whose response is not a success gets
\* exactly one notice_error call, before the end call on the same handle,
\* with the text of the response status as message.
C4_ErrorNoticed ==
  \A r \in Req :
    phase[r] = "responded" /\ OpenedOk(r) /\ Len(exposed[r]) >= 1
      /\ ~IsSuccess(resp[r]) =>
        ErrorNoticedBeforeEnd(r)

C4_Witness ==
  \E r \in Req :
    /\ phase[r] = "responded" /\ OpenedOk(r) /\ Len(exposed[r]) >= 1
    /\ ~IsSuccess(resp[r]) /\ OpCount(r, "notice_error") = 1

\* C5: promotion is idempotent: a Traced cell is never changed again (so
\* NotTraced -> Traced happens at most once per request), and every
\* from_request call after the one that claimed the transaction returns the
\* same Traced transaction.
C5_PromoteIdempotent ==
  /\ [](\A r \in Req : \A i, j \in 1 .. Len(exposed[r]) :
          i < j /\ exposed[r][i].tag = "Traced" => exposed[r][j] = exposed[r][i])
  /\ [][\A r \in Req : cell[r].tag = "Traced" => cell'[r] = cell[r]]_vars

C5_Witness ==
  \E r \in Req :
    /\ Len(exposed[r]) >= 2
    /\ exposed[r][1].tag = "Traced" /\ exposed[r][2] = exposed[r][1]
    /\ cell[r] = Traced(exposed[r][1].h)

\* C6: when web_transaction fails in on_request the cell is None from then
\* on, every from_request call succeeds and returns the None variant, and
\* on_response makes no backend call.
C6_OpenFailureNoOp ==
  \A r \in Req :
    OpenFailed(r) =>
      /\ cell[r] = NoneCell
      /\ \A i \in 1 .. Len(exposed[r]) :
           exposed[r][i] = [outcome |-> "Success", tag |-> "None", h |-> NoHandle]
      /\ Len(log[r]) = 1

C6_Witness ==
  \E r \in Req :
    phase[r] = "responded" /\ OpenFailed(r) /\ Len(exposed[r]) >= 1

\* C7: no call on a transaction made while handling a request targets a
\* handle opened for another request, and when all requests have been
\* responded to the number of web_transaction calls is the number of
\* requests and equals ends + ignores + requests finalized as None.
C7_NoCrossRequestUse ==
  /\ \A ri \in HandleCalls : log[ri[1]][ri[2]].h \in Opened(ri[1])
  /\ (\A r \in Req : phase[r] = "responded") =>
       LET opens == Cardinality({ri \in UNION {{<<r, i>> : i \in 1 .. Len(log[r])} : r \in Req} :
                                   log[ri[1]][ri[2]].op = "web_transaction"})
           ends == Cardinality({ri \in HandleCalls : log[ri[1]][ri[2]].op = "end"})
           ignores == Cardinality({ri \in HandleCalls : log[ri[1]][ri[2]].op = "ignore"})
           nones == Cardinality({r \in Req : cell[r].tag = "None"})
       IN opens = NReq /\ opens = ends + ignores + nones

C7_Witness ==
  /\ \A r \in Req : phase[r] = "responded"
  /\ \E ri \in HandleCalls : log[ri[1]][ri[2]].op = "end"
  /\ \E ri \in HandleCalls : log[ri[1]][ri[2]].op = "ignore"

\* C8: backend failures in on_response are swallowed: a failed notice_error
\* is still followed by exactly one end call, on_response completes whatever
\* the backend answers, and it leaves the response as the handler made it.
C8_FailuresSwallowed ==
  /\ [](\A r \in Req : \A i \in 1 .. Len(log[r]) :
          log[r][i].op = "notice_error" /\ ~log[r][i].ok =>
            Cardinality({j \in (i + 1) .. Len(log[r]) :
                           log[r][j].op = "end" /\ log[r][j].h = log[r][i].h}) = 1)
  /\ [][\A r \in Req :
          phase[r] = "ready" /\ phase'[r] # "ready" =>
            phase'[r] = "responded" /\ resp'[r] = resp[r]]_vars

C8_Witness ==
  \E r \in Req :
    /\ phase[r] = "responded"
    /\ \E i \in 1 .. Len(log[r]) :
         /\ log[r][i].op = "notice_error" /\ ~log[r][i].ok
         /\ i < Len(log[r]) /\ log[r][i + 1].op = "end" /\ ~log[r][i + 1].ok
    /\ resp[r].code = 404

\* C9: once end or ignore has been called on a handle no further call is
\* made on it: the terminating call is the last call on the handle in its
\* request, no other request calls on the handle, and so no handle is
\* terminated twice.
C9_NoUseAfterTermination ==
  \A ri \in HandleCalls :
    LET e == log[ri[1]][ri[2]]
    IN Terminal(e) =>
         \A rj \in HandleCalls :
           log[rj[1]][rj[2]].h = e.h =>
             rj[1] = ri[1] /\ rj[2] <= ri[2]

C9_Witness ==
  \E ri \in HandleCalls :
    /\ log[ri[1]][ri[2]].op = "end"
    /\ ri[2] > 1 /\ log[ri[1]][ri[2] - 1].op = "notice_error"
    /\ \E rj \in HandleCalls : rj[1] # ri[1] /\ log[rj[1]][rj[2]].op = "ignore"

\* C10: after on_response has run for a request, its cell no longer holds a
\* transaction handle.
C10_CellConsumed ==
  \A r \in Req : phase[r] = "responded" => cell[r].h = NoHandle

\* C11: while no transaction was opened for a request because on_request
\* did not run first, from_request succeeds with the None variant, the cell
\* is None (or still unset), and no call reaches the backend, on_response
\* included.
C11_NoCellTolerated ==
  \A r \in Req :
    OpCount(r, "web_transaction") = 0 =>
      /\ cell[r] \in {EmptyCell, NoneCell}
      /\ \A i \in 1 .. Len(exposed[r]) :
           exposed[r][i] = [outcome |-> "Success", tag |-> "None", h |-> NoHandle]
      /\ Len(exposed[r]) >= 1 \/ phase[r] = "responded" => cell[r] = NoneCell
      /\ log[r] = <<>>

C11_Witness ==
  \E r \in Req :
    /\ ~hooked[r] /\ phase[r] = "responded"
    /\ Len(exposed[r]) >= 1 /\ log[r] = <<>> /\ cell[r] = NoneCell

\* a path without its leading slash
WithoutLeadingSlash(b) == IF b # <<>> /\ Head(b) = "/" THEN Tail(b) ELSE b

\* the name the routes of a request should give its transaction
ExpectedName(rt) ==
  IF rt.matched
    THEN WithoutLeadingSlash(rt.base) \o <<"/">>
           \o (IF rt.hasName THEN rt.name
               ELSE <<"u", "n", "k", "n", "o", "w", "n", "_",
                      "h", "a", "n", "d", "l", "e", "r">>)
    ELSE <<"u", "n", "k", "n", "o", "w", "n", "_", "h", "a", "n", "d", "l", "e", "r">>

\* C12: the name passed to web_transaction is the route's base without its
\* leading slash, "/", and the handler name or "unknown_handler"; it is
\* "unknown_handler" alone when no route matched.  "/users" with "list"
\* gives "users/list".
C12_TransactionNaming ==
  \A r \in Req : \A i \in 1 .. Len(log[r]) :
    log[r][i].op = "web_transaction" =>
      /\ log[r][i].name = ExpectedName(route[r])
      /\ (route[r].base = <<"/", "u", "s", "e", "r", "s">>
            /\ route[r].name = <<"l", "i", "s", "t">>) =>
           log[r][i].name = <<"u", "s", "e", "r", "s", "/", "l", "i", "s", "t">>

C12_Witness ==
  \E r \in Req :
    /\ route[r].matched /\ ~route[r].hasName
    /\ route[r].base = <<"/", "u", "s", "e", "r", "s">>
    /\ Len(log[r]) = 1
    /\ log[r][1].name = <<"u", "s", "e", "r", "s", "/", "u", "n", "k", "n", "o", "w", "n",
                          "_", "h", "a", "n", "d", "l", "e", "r">>

\* C13: on_response leaves the response as it found it, for every cell and
\* every status: the step changes only the log of its own request, by calls
\* on the handle in that request's cell, and stores None in a cache that
\* was still unset.
C13_ResponseUntouched ==
  [][\A r \in Req :
       phase[r] = "ready" /\ phase'[r] = "responded" =>
         /\ resp' = resp
         /\ exposed' = exposed
         /\ \A q \in Req \ {r} : log'[q] = log[q] /\ cell'[q] = cell[q]
         /\ cell'[r] = IF cell[r] = EmptyCell THEN NoneCell ELSE cell[r]
         /\ Len(log'[r]) >= Len(log[r])
         /\ SubSeq(log'[r], 1, Len(log[r])) = log[r]
         /\ \A i \in (Len(log[r]) + 1) .. Len(log'[r]) :
              log'[r][i].h = cell[r].h /\ log'[r][i].op # "web_transaction"]_vars

C13_Witness ==
  \E r \in Req :
    /\ phase[r] = "responded" /\ resp[r] = [code |-> 404, reason |-> "Not Found"]
    /\ cell[r].tag = "Traced" /\ Len(log[r]) = 3
    /\ ~log[r][3].ok /\ log[r][2].ok

\* the handle opened for r has been ended or ignored
Terminated(r) ==
  \E i \in 1 .. Len(log[r]) : Terminal(log[r][i]) /\ log[r][i].h \in Opened(r)

\* C15: every transaction that on_request opened is eventually ended or
\* ignored, provided the host goes on to invoke on_response, however often
\* from_request was called and whatever the response status.
C15_AlwaysTerminated ==
  \A r \in Req : OpenedOk(r) ~> Terminated(r)

C15_Witness ==
  \E r \in Req :
    /\ Terminated(r) /\ phase[r] = "responded"
    /\ \E q \in Req : OpenedOk(q) /\ ~Terminated(q) /\ phase[q] = "ready"

\* C16: on_response calls notice_error exactly when the cell is Traced and
\* the status is not of the success class: once for 1xx, 3xx, 4xx and 5xx
\* statuses, never for 2xx ones, and always with error code 100.
C16_ErrorIffClaimedFailure ==
  \A r \in Req :
    /\ \A i \in 1 .. Len(log[r]) :
         log[r][i].op = "notice_error" => log[r][i].code = 100
    /\ phase[r] = "responded" =>
         /\ OpCount(r, "notice_error") \in {0, 1}
         /\ OpCount(r, "notice_error") = 1 <=>
              cell[r].tag = "Traced" /\ resp[r].code \notin 200 .. 299
         /\ cell[r].tag = "Traced" /\ resp[r].code \in {100, 303, 404, 500} =>
              OpCount(r, "notice_error") = 1
         /\ resp[r].code \in {200, 204} => OpCount(r, "notice_error") = 0

C16_Witness ==
  \E r, q \in Req :
    /\ phase[r] = "responded" /\ cell[r].tag = "Traced" /\ resp[r].code = 303
    /\ OpCount(r, "notice_error") = 1
    /\ phase[q] = "responded" /\ cell[q].tag = "Traced" /\ resp[q].code = 204
    /\ OpCount(q, "notice_error") = 0

\* C17: the cell only moves from NotTraced to Traced: the step of on_request
\* leaves it NotTraced or None, never Traced; a None cell stays None; a
\* Traced cell stays Traced; a NotTraced cell keeps its handle.
C17_CellMovesForward ==
  [][\A r \in Req :
       /\ ~hooked[r] /\ hooked'[r] => cell'[r].tag \in {"NotTraced", "None"}
       /\ cell[r].tag = "None" => cell'[r] = cell[r]
       /\ cell[r].tag = "Traced" => cell'[r] = cell[r]
       /\ cell[r].tag = "NotTraced" =>
            cell'[r].tag \in {"NotTraced", "Traced"} /\ cell'[r].h = cell[r].h]_vars

C17_Witness ==
  \E r, q \in Req :
    /\ cell[r].tag = "Traced" /\ phase[r] = "responded" /\ Len(exposed[r]) = 1
    /\ cell[q].tag = "None" /\ hooked[q] /\ OpenFailed(q) /\ Len(exposed[q]) >= 1

\* C18: the request-local cache keeps its first value: once a cell is
\* stored no step stores another one in its place (promotion rewrites the
\* stored NotTraced cell as Traced with the same handle), and an on_request
\* that finds None already stored opens no transaction and leaves None.
C18_FirstWriterWins ==
  [][\A r \in Req :
       /\ cell[r].tag # "Empty" =>
            \/ cell'[r] = cell[r]
            \/ cell[r].tag = "NotTraced" /\ cell'[r] = Traced(cell[r].h)
       /\ cell[r].tag = "None" /\ ~hooked[r] /\ hooked'[r] =>
            log'[r] = log[r] /\ cell'[r] = NoneCell]_vars

C18_Witness ==
  \E r \in Req :
    /\ hooked[r] /\ cell[r] = NoneCell /\ log[r] = <<>>
    /\ phase[r] = "handling"

====
